---- MODULE Spec2Model ----
(***************************************************************************)
(* A model of cog-agentic's predictor module (python/cog/predictor.py):    *)
(* input-type validation, Input- and Output-schema derivation, predictor   *)
(* loading, run_setup and the agent functions with their adapters          *)
(* (python/cog/agent_adapters), together with the worker/supervisor        *)
(* message protocol whose vocabulary is declared in                        *)
(* python/cog/server/eventtypes.py.                                        *)
(***************************************************************************)
EXTENDS Integers, Sequences, FiniteSets, TLC

VARIABLES
    \* ---- validate_input_type ----
    PYDANTIC_V2,   \* build flag imported from cog.types (predictor.py:51)
    ann,           \* the annotation handed to validate_input_type
    vname,         \* the parameter name handed to validate_input_type
    vres,          \* outcome of the last validate_input_type call on ann
    \* ---- get_input_create_model_kwargs / get_input_type ----
    sig,           \* inspect.Signature.parameters of predict(), in order
    heap,          \* the FieldInfo objects the signature's defaults refer to
    declared,      \* the same objects as written in the source (at import)
    derived,       \* outcomes of the derivations run so far, oldest first
    \* ---- predictor loading ----
    host,          \* the host runtime and the predictor file being loaded
    slimLoaded,    \* what load_slim_predictor_from_ref gave its caller
    fullLoaded,    \* what load_predictor_from_ref gave its caller
    argv,          \* sys.argv of the loading process
    imports,       \* the module imports the loaders ran, oldest first
    \* ---- worker / supervisor protocol ----
    inbox,         \* supervisor -> worker messages in flight, oldest first
    chan,          \* worker -> supervisor messages in flight, oldest first
    received,      \* what the supervisor has taken off chan, oldest first
    worker,        \* the worker: state, prediction served, what it emitted
    cancelReq,     \* a cancellation request is pending for the worker
    sup,           \* the supervisor: predictions dispatched, shutdown issued
    \* ---- get_output_type ----
    ret,           \* the return annotation of predict()
    output,        \* outcome of the last get_output_type call
    \* ---- run_setup ----
    setupEnv,      \* setup()'s signature, COG_WEIGHTS and the working directory
    setupCall,     \* what run_setup did: the call of setup() or the error
    \* ---- agent adapters ----
    autogen,       \* the predictor's autogen agents, in attribute order
    langchain,     \* the predictor's langchain agent executors, in attribute order
    tooling,       \* the last update_agent_tooling call and its outcome
    workflow       \* outcome of the last get_workflow call

vvars == <<ann, vname, vres>>
dvars == <<sig, heap, declared, derived>>
lvars == <<host, slimLoaded, fullLoaded, argv, imports>>
wvars == <<inbox, chan, received, worker, cancelReq, sup>>
ovars == <<ret, output>>
svars == <<setupEnv, setupCall>>
gvars == <<autogen, langchain, tooling, workflow>>
pvars == <<ovars, svars, gvars>>
vars == <<PYDANTIC_V2, vvars, dvars, lvars, wvars, pvars>>

(***************************************************************************)
(* Types.  An annotation is a record [k, a, args]:                         *)
(*   k = "atom"    a plain class named a                                   *)
(*   k = "union"   typing.Union / types.UnionType over args                *)
(*   k = "list"    typing.List / list over args (bare List: no args)       *)
(*   k = "literal" typing.Literal; args are the classes of its values      *)
(*   k = "enum"    an Enum synthesized by derivation: base class a,        *)
(*                 members args (values, in order)                         *)
(*   k = "empty"   inspect.Signature.empty (no annotation)                 *)
(***************************************************************************)
Atom(a) == [k |-> "atom", a |-> a, args |-> <<>>]
UnionOf(ts) == [k |-> "union", a |-> "", args |-> ts]
ListOf(ts) == [k |-> "list", a |-> "", args |-> ts]
LiteralOf(cs) == [k |-> "literal", a |-> "", args |-> cs]
EnumOf(base, members) == [k |-> "enum", a |-> base, args |-> members]
Empty == [k |-> "empty", a |-> "", args |-> <<>>]

Range(s) == {s[i] : i \in DOMAIN s}

ALLOWED_INPUT_TYPES ==
    <<Atom("str"), Atom("int"), Atom("float"), Atom("bool"),
      Atom("File"), Atom("Path"), Atom("Secret")>>

\* Classes defined in module cog.types (type.__module__ == "cog.types").
CogTypesModule == {"File", "Path", "Secret", "URLPath"}

NoError == [raised |-> FALSE, kind |-> "", param |-> ""]
TypeError(kind, name) == [raised |-> TRUE, kind |-> kind, param |-> name]

\* The first error a for-loop over results meets, or NoError.
RECURSIVE FirstError(_)
FirstError(rs) ==
    IF rs = <<>> THEN NoError
    ELSE IF Head(rs).raised THEN Head(rs)
    ELSE FirstError(Tail(rs))

\* validate_input_type without the loops over the members of a Union, List or
\* Literal: a container is let through whatever it holds.
validate_members_unchecked(type, name) ==
    IF type = Empty THEN TypeError("MissingType", name)
    ELSE IF type \in Range(ALLOWED_INPUT_TYPES) THEN NoError
    ELSE IF type.k \in {"literal", "union", "list"} THEN NoError
    ELSE IF PYDANTIC_V2 /\ type.k = "atom" /\ type.a \in CogTypesModule
        THEN NoError
    ELSE TypeError("UnsupportedType", name)

RECURSIVE validate_input_type(_, _)
validate_input_type(type, name) ==
    IF type = Empty THEN TypeError("MissingType", name)
    ELSE IF type \in Range(ALLOWED_INPUT_TYPES) THEN NoError
    ELSE IF type.k = "literal"
        THEN FirstError([i \in DOMAIN type.args |->
                            validate_input_type(Atom(type.args[i]), name)])
    ELSE IF type.k \in {"union", "list"}
        THEN FirstError([i \in DOMAIN type.args |->
                            validate_input_type(type.args[i], name)])
    ELSE IF PYDANTIC_V2 /\ type.k = "atom" /\ type.a \in CogTypesModule
        THEN NoError
    ELSE TypeError("UnsupportedType", name)

(***************************************************************************)
(* Specification SpecValidate: validate_input_type applied to annotations  *)
(* built from a pool of classes by nesting them in List[...] and           *)
(* Union[..., ...] up to MaxDepth levels.                                  *)
(***************************************************************************)
MaxDepth == 2

ParamNames == <<"text", "count", "seed">>

\* Classes an annotation is built from: allowed ones, NoneType (the second
\* member of Optional[T]), a class foreign to cog (dict), and a class of
\* cog.types that is not in ALLOWED_INPUT_TYPES (URLPath).
AtomPool == {"str", "int", "Path", "NoneType", "dict", "URLPath"}
\* Classes a Union wraps the annotation with.
UnionPool == {"int", "NoneType"}
\* Classes of the values of a Literal[...].
LiteralPool == {"str", "int", "NoneType"}

LiteralArgs == {<<c>> : c \in LiteralPool}
                  \cup {<<c1, c2>> : c1 \in LiteralPool, c2 \in LiteralPool}

BaseAnnotations ==
    {Empty, ListOf(<<>>)} \cup {Atom(a) : a \in AtomPool}
        \cup {LiteralOf(cs) : cs \in LiteralArgs}

RECURSIVE Depth(_)
Depth(t) ==
    IF t.k \in {"union", "list"} /\ t.args # <<>>
    THEN 1 + (LET d == [i \in DOMAIN t.args |-> Depth(t.args[i])]
              IN CHOOSE m \in Range(d) : \A x \in Range(d) : x <= m)
    ELSE 0

NotRun == [raised |-> FALSE, kind |-> "not run", param |-> ""]

VInit ==
    /\ ann \in BaseAnnotations
    /\ vname \in {ParamNames[1], ParamNames[2]}
    /\ vres = NotRun

VIdle ==
    /\ ann = Empty
    /\ vname = ""
    /\ vres = NotRun

\* The annotation becomes List[ann].
WrapList ==
    /\ ann # Empty
    /\ Depth(ann) < MaxDepth
    /\ ann' = ListOf(<<ann>>)
    /\ vres' = NotRun
    /\ UNCHANGED vname

\* The annotation becomes Union[ann, c] or Union[c, ann].
WrapUnion ==
    /\ ann # Empty
    /\ Depth(ann) < MaxDepth
    /\ \E c \in UnionPool :
          \E first \in BOOLEAN :
             ann' = UnionOf(IF first THEN <<Atom(c), ann>> ELSE <<ann, Atom(c)>>)
    /\ vres' = NotRun
    /\ UNCHANGED vname

\* One call validate_input_type(ann, vname).
Validate ==
    /\ vres = NotRun
    /\ vres' = validate_input_type(ann, vname)
    /\ UNCHANGED <<ann, vname>>

(***************************************************************************)
(* Input-schema derivation.                                                *)
(*                                                                         *)
(* A default-carrier (pydantic FieldInfo, made by cog.types.Input) is a    *)
(* record: dflt says whether it holds a default value, choices and enum    *)
(* are the entries "choices" and "enum" of its extra dictionary (<<>> when *)
(* the entry is absent, None or empty: the code tests them for truth),     *)
(* xorder is its "x-order" entry (NoOrder when absent).  Choice values are *)
(* numbered 1, 2, ...; for a str parameter they stand for distinct texts.  *)
(*                                                                         *)
(* A parameter's default is absent (kind "empty"), a raw value (kind       *)
(* "raw") or a carrier object of the heap (kind "field", ref its address): *)
(* two parameters naming the same module-level Input(...) object share one *)
(* address.                                                                *)
(***************************************************************************)
NoOrder == -1

Input(hasDefault) ==
    [dflt |-> IF hasDefault THEN "value" ELSE "none",
     choices |-> <<>>, enum |-> <<>>, xorder |-> NoOrder]

NoCarrier == [dflt |-> "absent", choices |-> <<>>, enum |-> <<>>, xorder |-> NoOrder]

\* extra.pop("choices", None) or extra.pop("enum", None): the value, and the
\* carrier after the pops (the second pop runs only when the first is falsy).
PoppedChoices(c) == IF c.choices # <<>> THEN c.choices ELSE c.enum
AfterPop(c) ==
    IF c.choices # <<>> THEN [c EXCEPT !.choices = <<>>]
    ELSE [c EXCEPT !.choices = <<>>, !.enum = <<>>]

\* What create_model_kwargs[name] = (InputType, default) holds: the carrier
\* by address when it is the signature's own object (ref > 0), else the
\* carrier derivation made itself (own).
Entry(name, type, ref, own) == [name |-> name, type |-> type, ref |-> ref, own |-> own]

CarrierOf(e, h) == IF e.ref > 0 THEN h[e.ref] ELSE e.own

\* One run of the loop body for parameter i, from loop state st =
\* [order, heap, kwargs, err]; the loop stops at the first raise.
LoopBody(st, p) ==
    LET v == validate_input_type(p.type, p.name)
        isField == p.dflt.kind = "field"
        default == IF p.dflt.kind = "empty" THEN Input(FALSE)
                   ELSE IF p.dflt.kind = "raw" THEN Input(TRUE)
                   ELSE st.heap[p.dflt.ref]
        ordered == [default EXCEPT !.xorder = st.order]
        choices == PoppedChoices(ordered)
        popped == AfterPop(ordered)
        heap2 == IF isField THEN [st.heap EXCEPT ![p.dflt.ref] = popped] ELSE st.heap
        ref == IF isField THEN p.dflt.ref ELSE 0
        own == IF isField THEN NoCarrier ELSE popped
        chosen == IF choices = <<>> THEN p.type
                  ELSE IF p.type = Atom("str") THEN EnumOf("str", choices)
                  ELSE IF p.type = Atom("int") THEN EnumOf("int", choices)
                  ELSE Empty
    IN IF v.raised THEN [st EXCEPT !.err = v]
       ELSE IF choices # <<>> /\ p.type \notin {Atom("str"), Atom("int")}
           THEN [st EXCEPT !.heap = heap2, !.order = st.order + 1,
                           !.err = TypeError("InvalidChoiceType", p.name)]
       ELSE [order |-> st.order + 1,
             heap |-> heap2,
             kwargs |-> Append(st.kwargs, Entry(p.name, chosen, ref, own)),
             err |-> NoError]

RECURSIVE Loop(_, _, _)
Loop(st, params, i) ==
    IF i > Len(params) \/ st.err.raised THEN st
    ELSE Loop(LoopBody(st, params[i]), params, i + 1)

get_input_create_model_kwargs(signature, h) ==
    Loop([order |-> 0, heap |-> h, kwargs |-> <<>>, err |-> NoError], signature, 1)

\* The structure of one field of the model pydantic builds: what a reader of
\* the schema sees of entry e when the carriers are as in heap h.
FieldView(e, h) ==
    LET c == CarrierOf(e, h)
    IN [name |-> e.name, type |-> e.type, required |-> c.dflt = "none",
        xorder |-> c.xorder, choices |-> c.choices, enum |-> c.enum, ref |-> e.ref]

\* get_input_type: create_model("Input", ..., **kwargs), or the TypeError.
get_input_type(signature, h) ==
    LET r == get_input_create_model_kwargs(signature, h)
    IN [err |-> r.err,
        heap |-> r.heap,
        model |-> IF r.err.raised THEN <<>>
                  ELSE [i \in DOMAIN r.kwargs |-> FieldView(r.kwargs[i], r.heap)]]

\* Whether a derived type accepts value v; an unrestricted type accepts any.
Accepts(type, v) == type.k = "enum" => v \in Range(type.args)

(***************************************************************************)
(* Specification SpecDerive: a predict() signature of up to MaxParams      *)
(* parameters is derived up to MaxDerive times.                            *)
(***************************************************************************)
MaxParams == 2
MaxDerive == 2

DeriveTypes == {Atom("str"), Atom("int"), Atom("float"), Atom("dict")}
ChoiceLists == {<<1, 2>>, <<2, 1>>}
Values == {1, 2, 3}

\* The extra dictionary of a carrier as written: no choices, or choices under
\* one of the two keys the code pops.
Extras ==
    {[choices |-> <<>>, enum |-> <<>>]}
        \cup {[choices |-> l, enum |-> <<>>] : l \in ChoiceLists}
        \cup {[choices |-> <<>>, enum |-> l] : l \in ChoiceLists}

Carriers ==
    {[dflt |-> d, choices |-> x.choices, enum |-> x.enum, xorder |-> NoOrder] :
        d \in {"none", "value"}, x \in Extras}

Defaults ==
    {[kind |-> "empty", ref |-> 0], [kind |-> "raw", ref |-> 0]}
        \cup {[kind |-> "field", ref |-> j] : j \in 1..MaxParams}

MaxRef(s, n) ==
    LET refs == {s[i].dflt.ref : i \in 1..n} \cup {0}
    IN CHOOSE m \in refs : \A x \in refs : x <= m

\* Addresses are numbered in order of first use.
Signatures(n) ==
    {s \in [1..n -> [name : Range(ParamNames), type : DeriveTypes, dflt : Defaults]] :
        \A i \in 1..n :
            /\ s[i].name = ParamNames[i]
            /\ s[i].dflt.ref <= MaxRef(s, i - 1) + 1}

DInit ==
    /\ \E n \in 0..MaxParams :
          /\ sig \in Signatures(n)
          /\ heap \in [1..MaxRef(sig, n) -> Carriers]
    /\ declared = heap
    /\ derived = <<>>

DIdle ==
    /\ sig = <<>>
    /\ heap = <<>>
    /\ declared = <<>>
    /\ derived = <<>>

\* One call get_input_type(predictor).
Derive ==
    /\ Len(derived) < MaxDerive
    /\ LET r == get_input_type(sig, heap)
       IN /\ heap' = r.heap
          /\ derived' = Append(derived, [err |-> r.err, model |-> r.model])
    /\ UNCHANGED <<sig, declared>>

(***************************************************************************)
(* Predictor loading.                                                      *)
(*                                                                         *)
(* host describes one predictor reference on one host:                     *)
(*   py39    sys.version_info >= (3, 9)                                    *)
(*   slim    what load_slim_predictor_from_file does: returns a module     *)
(*           ("module"), returns None ("none"), raises an Exception        *)
(*           ("exception": SyntaxError, AttributeError, OSError, ...) or   *)
(*           raises a BaseException that is no Exception ("exit":          *)
(*           SystemExit, KeyboardInterrupt)                                *)
(*   slimHas whether the stripped module still defines the named symbol    *)
(*   full    what load_full_predictor_from_file does: "module" or "raises" *)
(*   symbol  what the file defines under the name: "class", "function" or  *)
(*           "missing"                                                     *)
(*   ctor    whether calling the class with no arguments returns or raises *)
(***************************************************************************)
Hosts ==
    [py39 : BOOLEAN,
     slim : {"module", "none", "exception", "exit"},
     slimHas : BOOLEAN,
     full : {"module", "raises"},
     symbol : {"class", "function", "missing"},
     ctor : {"returns", "raises"}]

NoModule == [origin |-> "none", symbol |-> "missing", ctor |-> "returns"]
Returned(x) == [raised |-> FALSE, error |-> "", value |-> x]
Raised(e) == [raised |-> TRUE, error |-> e, value |-> NoModule]
NotLoaded == [raised |-> FALSE, error |-> "not called", value |-> NoModule]

load_full_predictor_from_file(h) ==
    IF h.full = "module"
    THEN Returned([origin |-> "full", symbol |-> h.symbol, ctor |-> h.ctor])
    ELSE Raised("ImportError")

load_slim_predictor_from_file(h) ==
    IF h.slim = "module"
    THEN Returned([origin |-> "slim",
                   symbol |-> IF h.slimHas THEN h.symbol ELSE "missing",
                   ctor |-> h.ctor])
    ELSE IF h.slim = "none" THEN Returned(NoModule)
    ELSE IF h.slim = "exception" THEN Raised("Exception")
    ELSE Raised("SystemExit")

\* getattr(module, class_name), then a call when it is a class.  The value
\* is the predictor: the module it came from and what the symbol is.
get_predictor(module) ==
    IF module.symbol = "missing" THEN Raised("AttributeError")
    ELSE IF module.symbol = "class" /\ module.ctor = "raises" THEN Raised("ConstructorError")
    ELSE Returned(module)

load_predictor_from_ref(h) ==
    LET m == load_full_predictor_from_file(h)
    IN IF m.raised THEN m ELSE get_predictor(m.value)

\* load_slim_predictor_from_ref with the finally clause dropped: a slim
\* loader that returns None or raises an Exception leaves module = None.
load_slim_without_fallback(h) ==
    LET tried == IF h.py39 THEN load_slim_predictor_from_file(h) ELSE Returned(NoModule)
    IN IF tried.raised /\ tried.error = "SystemExit" THEN tried
       ELSE IF tried.raised \/ tried.value = NoModule THEN Raised("AttributeError")
       ELSE get_predictor(tried.value)

load_slim_predictor_from_ref(h) ==
    LET tried == IF h.py39 THEN load_slim_predictor_from_file(h) ELSE Returned(NoModule)
        \* except Exception: only an Exception is swallowed
        pending == tried.raised /\ tried.error # "Exception"
        module == IF tried.raised THEN NoModule ELSE tried.value
        \* finally: if not module: module = load_full_predictor_from_file(...)
        fallback == IF module = NoModule THEN load_full_predictor_from_file(h)
                    ELSE Returned(module)
    IN IF fallback.raised THEN fallback
       ELSE IF pending THEN tried
       ELSE get_predictor(fallback.value)

\* with patch("sys.argv", new): body: what the body sees as sys.argv, and
\* sys.argv once the block is left, by return or by raise.
patch(old, new) == [inside |-> new, after |-> old]

\* One import of the predictor's code: which loader ran it, sys.argv before,
\* as the imported code saw it, and afterwards.
Import(loader, before, p) ==
    [loader |-> loader, before |-> before, seen |-> p.inside, after |-> p.after]

\* spec.loader.exec_module(module) under patch("sys.argv", sys.argv[:1]).
exec_module_full(a) == Import("full", a, patch(a, SubSeq(a, 1, 1)))

\* load_module_from_string(uuid, stripped_source): sys.argv is not touched.
exec_module_slim(a) == Import("slim", a, [inside |-> a, after |-> a])

\* Whether the slim loader got as far as running the stripped source: it
\* did when it returned a module or the source exited the interpreter; it
\* returns None for an empty source, and its Exceptions are those of
\* reading and parsing the file.
SlimRan(h) == h.py39 /\ h.slim \in {"module", "exit"}

\* The full loader runs in load_slim_predictor_from_ref when module is
\* falsy at the finally clause.
FallbackRan(h) == ~(h.py39 /\ h.slim = "module")

\* The imports one call load_slim_predictor_from_ref runs, from sys.argv a.
ImportsOfSlimRef(h, a) ==
    LET first == IF SlimRan(h) THEN <<exec_module_slim(a)>> ELSE <<>>
        a2 == IF first = <<>> THEN a ELSE first[1].after
    IN IF FallbackRan(h) THEN Append(first, exec_module_full(a2)) ELSE first

ArgvPool ==
    {<<"predict.py">>, <<"predict.py", "--port">>, <<"predict.py", "--port", "5000">>}

LInit ==
    /\ host \in Hosts
    /\ slimLoaded = NotLoaded
    /\ fullLoaded = NotLoaded
    /\ argv \in ArgvPool
    /\ imports = <<>>

LIdle ==
    /\ host = [py39 |-> FALSE, slim |-> "none", slimHas |-> FALSE,
               full |-> "raises", symbol |-> "missing", ctor |-> "returns"]
    /\ slimLoaded = NotLoaded
    /\ fullLoaded = NotLoaded
    /\ argv = <<>>
    /\ imports = <<>>

\* One call load_slim_predictor_from_ref(ref, method_name).
LoadSlimRef ==
    /\ slimLoaded = NotLoaded
    /\ slimLoaded' = load_slim_predictor_from_ref(host)
    /\ LET ran == ImportsOfSlimRef(host, argv)
       IN /\ imports' = imports \o ran
          /\ argv' = IF ran = <<>> THEN argv ELSE ran[Len(ran)].after
    /\ UNCHANGED <<host, fullLoaded>>

\* One call load_predictor_from_ref(ref).
LoadRef ==
    /\ fullLoaded = NotLoaded
    /\ fullLoaded' = load_predictor_from_ref(host)
    /\ LET ran == exec_module_full(argv)
       IN /\ imports' = Append(imports, ran)
          /\ argv' = ran.after
    /\ UNCHANGED <<host, slimLoaded>>


(***************************************************************************)
(* The worker/supervisor protocol.  The message classes are those of       *)
(* server/eventtypes.py; every message is one record shape                 *)
(* [type, pid, multi, seq, source, canceled, error, error_detail], the     *)
(* fields a class does not have left at their neutral value.  pid is the   *)
(* number of the prediction a message belongs to (bookkeeping of the       *)
(* model: the classes carry no id), seq numbers a prediction's outputs in  *)
(* the order predict() generated them.                                     *)
(***************************************************************************)
Message(type, pid) ==
    [type |-> type, pid |-> pid, valid |-> TRUE, multi |-> FALSE, seq |-> 0,
     source |-> "", canceled |-> FALSE, error |-> FALSE, error_detail |-> ""]

\* From worker parent process.  valid: whether the payload satisfies the
\* Input schema.
PredictionInput(pid, valid) == [Message("PredictionInput", pid) EXCEPT !.valid = valid]
Shutdown == Message("Shutdown", 0)

\* From predictor child process
Log(pid, source) == [Message("Log", pid) EXCEPT !.source = source]
PredictionOutput(pid, seq) == [Message("PredictionOutput", pid) EXCEPT !.seq = seq]
PredictionOutputType(pid, multi) ==
    [Message("PredictionOutputType", pid) EXCEPT !.multi = multi]
\* Done built without its error_detail, which stays at its default.
DoneWithoutDetail(pid, canceled, error, error_detail) ==
    [Message("Done", pid) EXCEPT !.canceled = canceled, !.error = error]
\* Done with its first two fields declared in the other order.
DoneFieldsSwapped(pid, canceled, error, error_detail) ==
    [Message("Done", pid) EXCEPT !.canceled = error, !.error = canceled,
                                 !.error_detail = error_detail]
Done(pid, canceled, error, error_detail) ==
    [Message("Done", pid) EXCEPT !.canceled = canceled, !.error = error,
                                 !.error_detail = error_detail]
LogSources == {"stdout", "stderr"}

(***************************************************************************)
(* Specification SpecWorker: one supervisor and one worker process.  The   *)
(* supervisor dispatches up to MaxPredictions predictions, may request     *)
(* cancellation of the one being served, and may shut the worker down; a   *)
(* prediction generates up to MaxOutputs outputs and the predictions log   *)
(* up to MaxLogs lines between them.                                       *)
(***************************************************************************)
MaxPredictions == 2
MaxOutputs == 2
MaxLogs == 1
\* Requests the supervisor has sent and the worker has not taken yet.
MaxPending == 1
\* Messages the worker has sent and the supervisor has not taken yet.
MaxInFlight == 2

Active == worker.state \in {"Running", "Streaming"}

\* What the worker has sent, oldest first: what the supervisor recorded and
\* what is still in flight.
Emitted == received \o chan

Send(m) == Len(chan) < MaxInFlight /\ chan' = Append(chan, m)

BackToIdle ==
    worker' = [worker EXCEPT !.state = "Idle", !.otype = "none", !.nout = 0]

WInit ==
    /\ inbox = <<>>
    /\ chan = <<>>
    /\ received = <<>>
    /\ worker = [state |-> "Idle", pid |-> 0, otype |-> "none", nout |-> 0, nlogs |-> 0]
    /\ cancelReq = FALSE
    /\ sup = [sent |-> 0, valid |-> <<>>, shutdown |-> FALSE]

WIdle ==
    /\ inbox = <<>>
    /\ chan = <<>>
    /\ received = <<>>
    /\ worker = [state |-> "Exited", pid |-> 0, otype |-> "none", nout |-> 0, nlogs |-> 0]
    /\ cancelReq = FALSE
    /\ sup = [sent |-> 0, valid |-> <<>>, shutdown |-> TRUE]

NotWorker == UNCHANGED <<PYDANTIC_V2, vvars, dvars, lvars, pvars>>

\* Supervisor: send a PredictionInput.
Dispatch ==
    /\ ~sup.shutdown
    /\ sup.sent < MaxPredictions
    /\ Len(inbox) < MaxPending
    /\ \E valid \in BOOLEAN :
          /\ inbox' = Append(inbox, PredictionInput(sup.sent + 1, valid))
          /\ sup' = [sup EXCEPT !.sent = sup.sent + 1, !.valid = Append(sup.valid, valid)]
    /\ UNCHANGED <<chan, received, worker, cancelReq>>
    /\ NotWorker

\* Supervisor: send Shutdown; no request follows it.
IssueShutdown ==
    /\ ~sup.shutdown
    /\ inbox' = Append(inbox, Shutdown)
    /\ sup' = [sup EXCEPT !.shutdown = TRUE]
    /\ UNCHANGED <<chan, received, worker, cancelReq>>
    /\ NotWorker

\* Supervisor: signal cancellation of the prediction being served.
RequestCancel ==
    /\ Active
    /\ ~cancelReq
    /\ cancelReq' = TRUE
    /\ UNCHANGED <<inbox, chan, received, worker, sup>>
    /\ NotWorker

\* The supervisor's record once the Done of prediction pid has arrived: of
\* a finished prediction it keeps the Done alone.
RECURSIVE Settled(_, _)
Settled(log, pid) ==
    IF log = <<>> THEN <<>>
    ELSE IF Head(log).pid = pid /\ Head(log).type # "Done" THEN Settled(Tail(log), pid)
    ELSE <<Head(log)>> \o Settled(Tail(log), pid)

\* Taking the newest message first: a channel that does not keep order.
TakeNewest(q) == [taken |-> q[Len(q)], rest |-> SubSeq(q, 1, Len(q) - 1)]
\* Taking the oldest message first.
TakeOldest(q) == [taken |-> Head(q), rest |-> Tail(q)]

\* Supervisor: take the oldest message off the channel.  A Log line is
\* passed on to the log stream, any other message is recorded.
Receive ==
    /\ chan # <<>>
    /\ LET t == TakeOldest(chan)
           log == Append(received, t.taken)
       IN /\ received' = IF t.taken.type = "Done" THEN Settled(log, t.taken.pid)
                          ELSE IF t.taken.type = "Log" THEN received
                          ELSE log
          /\ chan' = t.rest
    /\ UNCHANGED <<inbox, worker, cancelReq, sup>>
    /\ NotWorker

\* StartPrediction taking the next PredictionInput whatever the worker is
\* doing.
StartPredictionWhileActive ==
    /\ worker.state # "Exited"
    /\ inbox # <<>>
    /\ Head(inbox).type = "PredictionInput"
    /\ Head(inbox).valid
    /\ inbox' = Tail(inbox)
    /\ worker' = [state |-> "Running", pid |-> Head(inbox).pid, otype |-> "none",
                  nout |-> 0, nlogs |-> worker.nlogs]
    /\ UNCHANGED <<chan, received, cancelReq, sup>>
    /\ NotWorker

\* Worker, Idle: a PredictionInput whose payload satisfies the Input schema
\* starts predict().
StartPrediction ==
    /\ worker.state = "Idle"
    /\ inbox # <<>>
    /\ Head(inbox).type = "PredictionInput"
    /\ Head(inbox).valid
    /\ inbox' = Tail(inbox)
    /\ worker' = [state |-> "Running", pid |-> Head(inbox).pid, otype |-> "none",
                  nout |-> 0, nlogs |-> worker.nlogs]
    /\ UNCHANGED <<chan, received, cancelReq, sup>>
    /\ NotWorker

\* Worker, Idle: a payload that fails the Input schema is answered with
\* Done{error:true, error_detail}; the worker stays Idle.
RejectPayload ==
    /\ worker.state = "Idle"
    /\ inbox # <<>>
    /\ Head(inbox).type = "PredictionInput"
    /\ ~Head(inbox).valid
    /\ inbox' = Tail(inbox)
    /\ Send(Done(Head(inbox).pid, FALSE, TRUE, "ValidationError"))
    /\ worker' = [state |-> "Idle", pid |-> Head(inbox).pid, otype |-> "none",
                  nout |-> 0, nlogs |-> worker.nlogs]
    /\ UNCHANGED <<received, cancelReq, sup>>
    /\ NotWorker

\* Worker, Idle: Shutdown is acknowledged by process exit.
Exit ==
    /\ worker.state = "Idle"
    /\ inbox # <<>>
    /\ Head(inbox).type = "Shutdown"
    /\ inbox' = Tail(inbox)
    /\ worker' = [worker EXCEPT !.state = "Exited"]
    /\ UNCHANGED <<chan, received, cancelReq, sup>>
    /\ NotWorker

\* predict() writes a line to stdout or stderr.
EmitLog ==
    /\ Active
    /\ worker.nlogs < MaxLogs
    /\ \E source \in LogSources : Send(Log(worker.pid, source))
    /\ worker' = [worker EXCEPT !.nlogs = worker.nlogs + 1]
    /\ UNCHANGED <<inbox, received, cancelReq, sup>>
    /\ NotWorker

\* DeclareOutputType without the test that no type was declared yet.
DeclareOutputTypeRepeated ==
    /\ Active
    /\ \E multi \in BOOLEAN :
          /\ Send(PredictionOutputType(worker.pid, multi))
          /\ worker' = [worker EXCEPT
                            !.otype = IF multi THEN "multi" ELSE "single",
                            !.state = IF multi THEN "Streaming" ELSE "Running"]
    /\ UNCHANGED <<inbox, received, cancelReq, sup>>
    /\ NotWorker

\* The worker declares the output type; multi moves it to Streaming.
DeclareOutputType ==
    /\ worker.state = "Running"
    /\ worker.otype = "none"
    /\ \E multi \in BOOLEAN :
          /\ Send(PredictionOutputType(worker.pid, multi))
          /\ worker' = [worker EXCEPT
                            !.otype = IF multi THEN "multi" ELSE "single",
                            !.state = IF multi THEN "Streaming" ELSE "Running"]
    /\ UNCHANGED <<inbox, received, cancelReq, sup>>
    /\ NotWorker

\* The worker sends the next output predict() generated: one when the
\* declared type is single, any number when it is multi.
EmitOutput ==
    /\ Active
    /\ worker.otype # "none"
    /\ worker.otype = "single" => worker.nout = 0
    /\ worker.nout < MaxOutputs
    /\ Send(PredictionOutput(worker.pid, worker.nout + 1))
    /\ worker' = [worker EXCEPT !.nout = worker.nout + 1]
    /\ UNCHANGED <<inbox, received, cancelReq, sup>>
    /\ NotWorker

\* Complete leaving the prediction active after its Done.
CompleteStaysActive ==
    /\ Active
    /\ ~cancelReq
    /\ Send(Done(worker.pid, FALSE, FALSE, ""))
    /\ UNCHANGED <<inbox, received, worker, cancelReq, sup>>
    /\ NotWorker

\* predict() returns (or its iterator is exhausted): Done{}.
Complete ==
    /\ Active
    /\ ~cancelReq
    /\ Send(Done(worker.pid, FALSE, FALSE, ""))
    /\ BackToIdle
    /\ UNCHANGED <<inbox, received, cancelReq, sup>>
    /\ NotWorker

\* predict() raises: Done{error:true, error_detail}.  With a single output
\* type the output is the value predict() returned, so it can raise only
\* before the output; an iterator can raise between two of its outputs.
Raise ==
    /\ Active
    /\ ~cancelReq
    /\ worker.nout = 0 \/ worker.state = "Streaming"
    /\ Send(Done(worker.pid, FALSE, TRUE, "RuntimeError"))
    /\ BackToIdle
    /\ UNCHANGED <<inbox, received, cancelReq, sup>>
    /\ NotWorker

\* The worker reaches a checkpoint with a cancellation request pending:
\* Done{canceled:true}.
ObserveCancel ==
    /\ Active
    /\ cancelReq
    /\ Send(Done(worker.pid, TRUE, FALSE, ""))
    /\ BackToIdle
    /\ cancelReq' = FALSE
    /\ UNCHANGED <<inbox, received, sup>>
    /\ NotWorker


(***************************************************************************)
(* Output-schema derivation: get_output_type.                              *)
(*                                                                         *)
(* Return annotations add these kinds to the annotation records:           *)
(*   k = "iterator"  typing.Iterator or collections.abc.Iterator with its  *)
(*                   item type in args; bare typing.Iterator has no args   *)
(*   k = "generic"   another parameterised generic, a its origin           *)
(*                   (Generator[T, None, None], ConcatenateIterator[T])    *)
(*   k = "annotated" Annotated[args[1], Field(...)]; a says whether the    *)
(*                   field carries "x-cog-array-type": "iterator"          *)
(* The class collections.abc.Iterator written bare is Atom("Iterator").    *)
(***************************************************************************)
IteratorOf(ts) == [k |-> "iterator", a |-> "", args |-> ts]
GenericOf(origin, ts) == [k |-> "generic", a |-> origin, args |-> ts]
AnnotatedIterator(t) == [k |-> "annotated", a |-> "x-cog-array-type: iterator", args |-> <<t>>]

\* typing.get_origin: collections.abc.Iterator for typing.Iterator, with or
\* without a parameter; None for a plain class.
get_origin(t) ==
    IF t.k = "iterator" THEN "Iterator"
    ELSE IF t.k = "list" THEN "list"
    ELSE IF t.k = "union" THEN "Union"
    ELSE IF t.k = "generic" THEN t.a
    ELSE "None"

get_args(t) == t.args

\* OutputType.__name__ if hasattr(OutputType, "__name__") else "": a class
\* has its name; the name of an alias is that of its origin, or none.
NameOf(t) == IF t.k = "atom" THEN t.a ELSE ""

\* The Output model: how it was made ("itself": the annotation's own class
\* returned, "subclass": class Output(OutputType), "root": a root model
\* over OutputType) and the type it describes.
OutputModel(how, t) == [how |-> how, type |-> t]
NoModel == OutputModel("none", Empty)
OutputReturned(m) == [raised |-> FALSE, error |-> "", model |-> m]
OutputRaised(e) == [raised |-> TRUE, error |-> e, model |-> NoModel]
NotDerived == [raised |-> FALSE, error |-> "not called", model |-> NoModel]

get_output_type(annotation) ==
    IF annotation = Empty THEN OutputRaised("TypeError")
    ELSE IF get_origin(annotation) = "Iterator" /\ get_args(annotation) = <<>>
        THEN OutputRaised("IndexError")
    ELSE LET OutputType ==
                 IF get_origin(annotation) = "Iterator"
                 THEN AnnotatedIterator(ListOf(<<get_args(annotation)[1]>>))
                 ELSE annotation
             name == NameOf(OutputType)
         IN IF name = "Output" THEN OutputReturned(OutputModel("itself", OutputType))
            ELSE IF name = "TrainingOutput"
                THEN OutputReturned(OutputModel("subclass", OutputType))
            ELSE OutputReturned(OutputModel("root", OutputType))

\* The streaming marker of an Output model, and the type it describes.
Streaming(m) == m.type.k = "annotated"
Described(m) == IF m.type.k = "annotated" THEN m.type.args[1] ELSE m.type

(***************************************************************************)
(* Specification SpecOutput: get_output_type on one predict().             *)
(***************************************************************************)
OutputAtoms == {"str", "int", "Path", "Any", "Output", "TrainingOutput"}

ReturnAnnotations ==
    {Empty, Atom("Iterator"), IteratorOf(<<>>)}
        \cup {Atom(c) : c \in OutputAtoms}
        \cup {IteratorOf(<<Atom(c)>>) : c \in OutputAtoms}
        \cup {ListOf(<<Atom(c)>>) : c \in OutputAtoms}
        \cup {GenericOf(g, <<Atom(c)>>) :
                 g \in {"Generator", "ConcatenateIterator"}, c \in OutputAtoms}

OInit ==
    /\ ret \in ReturnAnnotations
    /\ output = NotDerived

OIdle ==
    /\ ret = Empty
    /\ output = NotDerived

\* One call get_output_type(predictor).
GetOutputType ==
    /\ output = NotDerived
    /\ output' = get_output_type(ret)
    /\ UNCHANGED ret


(***************************************************************************)
(* run_setup: the weights argument of setup().                             *)
(*                                                                         *)
(* setupEnv describes one predictor in one environment:                    *)
(*   hasWeights  whether setup() declares a parameter named weights        *)
(*   annotation  that parameter's annotation                               *)
(*   COG_WEIGHTS the environment variable: "unset", "" or a locator        *)
(*   exists      os.path.exists("weights")                                 *)
(*   fileOK      whether cog.types.File accepts the locator                *)
(*   pathOK      whether cog.types.Path accepts the locator                *)
(* The weights value handed to setup() is a record: its kind ("File",      *)
(* "Path", "str" or "None"), where it came from ("env", "local" or ""),    *)
(* and, for a file object, whether it is still open.                       *)
(***************************************************************************)
Weights(kind, from, open) == [kind |-> kind, from |-> from, open |-> open]
NoWeights == Weights("None", "", FALSE)

\* predictor.setup() / predictor.setup(weights=weights) / a raise.
SetupCalled(args, w) == [raised |-> FALSE, error |-> "", args |-> args, weights |-> w]
SetupRaised(e) == [raised |-> TRUE, error |-> e, args |-> "", weights |-> NoWeights]
SetupNotRun == [raised |-> FALSE, error |-> "not called", args |-> "", weights |-> NoWeights]

\* None when setup() has no weights parameter; Optional[T] gives T.
get_weights_type(e) ==
    IF ~e.hasWeights THEN Atom("None")
    ELSE IF get_origin(e.annotation) = "Union"
            /\ Len(get_args(e.annotation)) = 2
            /\ get_args(e.annotation)[2] = Atom("NoneType")
        THEN get_args(e.annotation)[1]
    ELSE e.annotation

run_setup(e, v2) ==
    LET weights_type == get_weights_type(e)
        weights_url == e.COG_WEIGHTS
        unsupported == SetupRaised("ValueError")
    IN IF weights_type = Atom("None") THEN SetupCalled("none", NoWeights)
       ELSE IF weights_url \notin {"unset", ""}
       THEN IF v2
            THEN \* for t in [CogFile, CogPath]: try ... break / else
                 IF e.fileOK THEN SetupCalled("weights", Weights("File", "env", TRUE))
                 ELSE IF e.pathOK THEN SetupCalled("weights", Weights("Path", "env", FALSE))
                 ELSE IF weights_type = Atom("str")
                     THEN SetupCalled("weights", Weights("str", "env", FALSE))
                 ELSE unsupported
            ELSE IF weights_type = Atom("File")
                 THEN IF e.fileOK THEN SetupCalled("weights", Weights("File", "env", TRUE))
                      ELSE SetupRaised("ValidationError")
                 ELSE IF weights_type = Atom("Path")
                 THEN IF e.pathOK THEN SetupCalled("weights", Weights("Path", "env", FALSE))
                      ELSE SetupRaised("ValidationError")
                 ELSE IF weights_type = Atom("str")
                     THEN SetupCalled("weights", Weights("str", "env", FALSE))
                 ELSE unsupported
       ELSE IF e.exists
       THEN \* with open(weights_path, "rb") as f: weights = f -- the with
            \* block is left, and f closed, before setup() is called
            IF weights_type = Atom("File")
                THEN SetupCalled("weights", Weights("File", "local", FALSE))
            ELSE IF weights_type = Atom("Path")
                THEN SetupCalled("weights", Weights("Path", "local", FALSE))
            ELSE unsupported
       ELSE SetupCalled("weights", NoWeights)

(***************************************************************************)
(* Specification SpecSetup: run_setup on one predictor.                    *)
(***************************************************************************)
WeightsClasses == {"File", "Path", "str", "int"}

WeightsAnnotations ==
    {Atom(c) : c \in WeightsClasses}
        \cup {UnionOf(<<Atom(c), Atom("NoneType")>>) : c \in WeightsClasses}

SetupEnvs ==
    [hasWeights : BOOLEAN,
     annotation : WeightsAnnotations,
     COG_WEIGHTS : {"unset", "", "https://weights"},
     exists : BOOLEAN,
     fileOK : BOOLEAN,
     pathOK : BOOLEAN]

SInit ==
    /\ setupEnv \in SetupEnvs
    /\ setupCall = SetupNotRun

\* One call run_setup(predictor).
RunSetup ==
    /\ setupCall = SetupNotRun
    /\ setupCall' = run_setup(setupEnv, PYDANTIC_V2)
    /\ UNCHANGED setupEnv


(***************************************************************************)
(* Agent adapters (agent_adapters/autogen_adapter.py, langchain_adapter.py)*)
(* and the two predictor functions that call them.                         *)
(*                                                                         *)
(* get_agent_atomics gives, per framework, the predictor's agents in       *)
(* attribute order.  An autogen agent is [name, llm, tools]: llm says      *)
(* whether it has a truthy llm_config, tools is llm_config["tools"] (<<>>  *)
(* when the key is absent).  A langchain executor is [name, tools], name   *)
(* "" when runnable.name is None.  A tool is [name, desc].                 *)
(***************************************************************************)
Tool(name, desc) == [name |-> name, desc |-> desc]
\* A node's description is "Autogen - " or "Langchain - " followed by the
\* name, or the tool's description; the model keeps the prefix alone.
Node(name, description) == [name |-> name, description |-> description]
Edge(source, target) == [source |-> source, target |-> target]
Graph(nodes, edges) == [raised |-> FALSE, error |-> "", nodes |-> nodes, edges |-> edges]
GraphRaised(e) == [raised |-> TRUE, error |-> e, nodes |-> <<>>, edges |-> <<>>]
NotAsked == [raised |-> FALSE, error |-> "not called", nodes |-> <<>>, edges |-> <<>>]

\* get_caller_and_executor: positions in agents, 0 for None.  The loop is
\* entered at position i with caller as found so far.
RECURSIVE ScanAgents(_, _, _)
ScanAgents(agents, i, caller) ==
    IF i > Len(agents) THEN [caller |-> caller, executor |-> 0]
    ELSE LET c == IF agents[i].llm THEN i ELSE caller
         IN IF c # 0 /\ i # c THEN [caller |-> c, executor |-> i]
            ELSE ScanAgents(agents, i + 1, c)

get_caller_and_executor(agents) == ScanAgents(agents, 1, 0)

ToolNodes(tools) == [i \in DOMAIN tools |-> Node(tools[i].name, tools[i].desc)]
ToolEdges(source, tools) == [i \in DOMAIN tools |-> Edge(source, tools[i].name)]

\* autogen_adapter.get_workflow
get_workflow_autogen(agents) ==
    LET ce == get_caller_and_executor(agents)
        root == IF ce.executor # 0
                THEN <<Node(agents[ce.executor].name, "Autogen")>> ELSE <<>>
    IN IF ce.caller = 0 THEN Graph(root, <<>>)
       ELSE IF ce.executor = 0 THEN GraphRaised("AttributeError")
       ELSE LET caller == agents[ce.caller]
            IN Graph(root \o <<Node(caller.name, "Autogen")>> \o ToolNodes(caller.tools),
                     <<Edge(agents[ce.executor].name, caller.name)>>
                         \o ToolEdges(caller.name, caller.tools))

\* langchain_adapter.get_workflow
get_workflow_langchain(agents) ==
    IF Len(agents) = 0 THEN Graph(<<>>, <<>>)
    ELSE LET runnable == agents[1]
             root_name == IF runnable.name # "" THEN runnable.name ELSE "AgentExecutor"
         IN Graph(<<Node(root_name, "Langchain")>> \o ToolNodes(runnable.tools),
                  ToolEdges(root_name, runnable.tools))

\* predictor.get_workflow: ConversableAgent first, then AgentExecutor; a
\* framework without agents is skipped.
get_workflow(ag, lc) ==
    LET g1 == IF Len(ag) = 0 THEN Graph(<<>>, <<>>) ELSE get_workflow_autogen(ag)
        g2 == IF Len(lc) = 0 THEN Graph(<<>>, <<>>) ELSE get_workflow_langchain(lc)
    IN IF g1.raised THEN g1
       ELSE IF g2.raised THEN g2
       ELSE Graph(g1.nodes \o g2.nodes, g1.edges \o g2.edges)

\* What an adapter call leaves behind: whether it raised, and the agents.
Left(raised, agents) == [raised |-> raised, agents |-> agents]

\* autogen's register_for_llm (update_tool_signature): a tool of the same
\* name is replaced, the new one goes last.
Registered(tools, tool) ==
    Append(SelectSeq(tools, LAMBDA t : t.name # tool.name), tool)

\* autogen_adapter.add_tool without the test of len(agents).
add_tool_autogen_unguarded(name, desc, agents) ==
    LET ce == get_caller_and_executor(agents)
        withTool == [agents EXCEPT ![ce.caller].tools = Registered(@, Tool(name, desc))]
    IN IF ce.caller = 0 THEN Left(TRUE, agents)
       ELSE IF ce.executor = 0 THEN Left(TRUE, withTool)
       ELSE Left(FALSE, withTool)

\* autogen_adapter.add_tool.  register_function registers the tool with the
\* caller, then with the executor; either being None raises there.
add_tool_autogen(name, desc, agents) ==
    IF Len(agents) < 2 THEN Left(FALSE, agents)
    ELSE LET ce == get_caller_and_executor(agents)
             withTool == [agents EXCEPT ![ce.caller].tools = Registered(@, Tool(name, desc))]
         IN IF ce.caller = 0 THEN Left(TRUE, agents)
            ELSE IF ce.executor = 0 THEN Left(TRUE, withTool)
            ELSE Left(FALSE, withTool)

\* autogen_adapter.remove_tool: update_tool_signature(name, is_remove=True)
\* on the caller, its exceptions caught.
remove_tool_autogen(name, desc, agents) ==
    LET ce == get_caller_and_executor(agents)
    IN IF ce.caller # 0 /\ agents[ce.caller].tools # <<>>
       THEN Left(FALSE, [agents EXCEPT ![ce.caller].tools =
                                  SelectSeq(@, LAMBDA t : t.name # name)])
       ELSE Left(FALSE, agents)

\* _update_agent_tooling_internals: runnable.tools.append(tool).
\* langchain_adapter.add_tool: the tool goes to the first executor.
add_tool_langchain(name, desc, agents) ==
    IF Len(agents) = 0 THEN Left(FALSE, agents)
    ELSE Left(FALSE, [agents EXCEPT ![1].tools = Append(@, Tool(name, desc))])

\* list.remove(x): the first element equal to x is taken out.
RECURSIVE ListRemove(_, _)
ListRemove(l, x) ==
    IF l = <<>> THEN <<>>
    ELSE IF Head(l) = x THEN Tail(l)
    ELSE <<Head(l)>> \o ListRemove(Tail(l), x)

\* for tool in runnable.tools: if ...: runnable.tools.remove(tool), from
\* position i of the list iterator; the list shrinks under the iterator.
RECURSIVE RemoveWhileIterating(_, _, _, _)
RemoveWhileIterating(tools, i, name, desc) ==
    IF i > Len(tools) THEN tools
    ELSE IF tools[i].name = name /\ tools[i].desc = desc
        THEN RemoveWhileIterating(ListRemove(tools, tools[i]), i + 1, name, desc)
    ELSE RemoveWhileIterating(tools, i + 1, name, desc)

\* langchain_adapter.remove_tool
remove_tool_langchain(name, desc, agents) ==
    Left(FALSE, [i \in DOMAIN agents |->
                    [agents[i] EXCEPT !.tools = RemoveWhileIterating(@, 1, name, desc)]])

\* predictor.update_agent_tooling: autogen first, then langchain; a raise
\* of the first call ends it.  by names the adapter that raised.
update_agent_tooling(name, desc, ag, lc, remove) ==
    LET a == IF remove THEN remove_tool_autogen(name, desc, ag)
             ELSE add_tool_autogen(name, desc, ag)
        l == IF remove THEN remove_tool_langchain(name, desc, lc)
             ELSE add_tool_langchain(name, desc, lc)
    IN IF a.raised THEN [by |-> "autogen", autogen |-> a.agents, langchain |-> lc]
       ELSE IF l.raised THEN [by |-> "langchain", autogen |-> a.agents, langchain |-> l.agents]
       ELSE [by |-> "", autogen |-> a.agents, langchain |-> l.agents]

(***************************************************************************)
(* Specification SpecAgents: a predictor holding up to MaxAgents autogen   *)
(* agents and up to MaxExecutors langchain executors; tools are added and  *)
(* removed, then the workflow graph is asked for.                          *)
(***************************************************************************)
MaxAgents == 2
MaxExecutors == 1
MaxTools == 2

AgentNames == <<"assistant", "user_proxy", "critic">>
ExecutorNames == {"", "executor"}
ToolNames == {"search", "calc"}
ToolDescs == {"web", "local"}

NoCall == [op |-> "none", name |-> "", desc |-> "", by |-> ""]

GInit ==
    /\ \E n \in 0..MaxAgents :
          autogen \in {a \in [1..n -> [name : Range(AgentNames), llm : BOOLEAN, tools : {<<>>}]] :
                          \A i \in 1..n : a[i].name = AgentNames[i]}
    /\ \E n \in 0..MaxExecutors :
          langchain \in [1..n -> [name : ExecutorNames, tools : {<<>>}]]
    /\ tooling = NoCall
    /\ workflow = NotAsked

\* update_agent_tooling(name, desc, schema, func, predictor)
AddTool ==
    /\ workflow = NotAsked
    /\ \A i \in DOMAIN langchain : Len(langchain[i].tools) < MaxTools
    /\ \E name \in ToolNames, desc \in ToolDescs :
          LET r == update_agent_tooling(name, desc, autogen, langchain, FALSE)
          IN /\ autogen' = r.autogen
             /\ langchain' = r.langchain
             /\ tooling' = [op |-> "add", name |-> name, desc |-> desc, by |-> r.by]
    /\ UNCHANGED workflow

\* update_agent_tooling(name, desc, schema, func, predictor, remove=True)
RemoveTool ==
    /\ workflow = NotAsked
    /\ \E name \in ToolNames, desc \in ToolDescs :
          LET r == update_agent_tooling(name, desc, autogen, langchain, TRUE)
          IN /\ autogen' = r.autogen
             /\ langchain' = r.langchain
             /\ tooling' = [op |-> "remove", name |-> name, desc |-> desc, by |-> r.by]
    /\ UNCHANGED workflow

\* get_workflow(predictor), the answer to a PredictorWorkflowRequest.
GetWorkflow ==
    /\ workflow = NotAsked
    /\ workflow' = get_workflow(autogen, langchain)
    /\ UNCHANGED <<autogen, langchain, tooling>>

SIdle ==
    /\ setupEnv = <<>>
    /\ setupCall = <<>>

GIdle ==
    /\ autogen = <<>>
    /\ langchain = <<>>
    /\ tooling = NoCall
    /\ workflow = NotAsked

PIdle == OIdle /\ SIdle /\ GIdle

(***************************************************************************)
(* Specifications.                                                         *)
(***************************************************************************)
ValidateInit == PYDANTIC_V2 \in BOOLEAN /\ VInit /\ DIdle /\ LIdle /\ WIdle /\ PIdle
ValidateNext ==
    \/ WrapList /\ UNCHANGED <<PYDANTIC_V2, dvars, lvars, wvars, pvars>>
    \/ WrapUnion /\ UNCHANGED <<PYDANTIC_V2, dvars, lvars, wvars, pvars>>
    \/ Validate /\ UNCHANGED <<PYDANTIC_V2, dvars, lvars, wvars, pvars>>
SpecValidate == ValidateInit /\ [][ValidateNext]_vars

DeriveInit == PYDANTIC_V2 \in BOOLEAN /\ DInit /\ VIdle /\ LIdle /\ WIdle /\ PIdle
DeriveNext == Derive /\ UNCHANGED <<PYDANTIC_V2, vvars, lvars, wvars, pvars>>
SpecDerive == DeriveInit /\ [][DeriveNext]_vars

LoadInit == PYDANTIC_V2 = FALSE /\ LInit /\ VIdle /\ DIdle /\ WIdle /\ PIdle
LoadNext ==
    \/ LoadSlimRef /\ UNCHANGED <<PYDANTIC_V2, vvars, dvars, wvars, pvars>>
    \/ LoadRef /\ UNCHANGED <<PYDANTIC_V2, vvars, dvars, wvars, pvars>>
SpecLoad == LoadInit /\ [][LoadNext]_vars

WorkerInit == PYDANTIC_V2 = FALSE /\ WInit /\ VIdle /\ DIdle /\ LIdle /\ PIdle
WorkerNext ==
    \/ Dispatch
    \/ IssueShutdown
    \/ RequestCancel
    \/ Receive
    \/ StartPrediction
    \/ RejectPayload
    \/ Exit
    \/ EmitLog
    \/ DeclareOutputType
    \/ EmitOutput
    \/ Complete
    \/ Raise
    \/ ObserveCancel
\* The worker process keeps running, so a pending cancellation is observed,
\* and the supervisor keeps draining the channel.
SpecWorker ==
    WorkerInit /\ [][WorkerNext]_vars /\ WF_vars(ObserveCancel) /\ WF_vars(Receive)

OutputInit ==
    PYDANTIC_V2 \in BOOLEAN /\ OInit /\ VIdle /\ DIdle /\ LIdle /\ WIdle /\ SIdle /\ GIdle
OutputNext ==
    GetOutputType /\ UNCHANGED <<PYDANTIC_V2, vvars, dvars, lvars, wvars, svars, gvars>>
SpecOutput == OutputInit /\ [][OutputNext]_vars

SetupInit ==
    PYDANTIC_V2 \in BOOLEAN /\ SInit /\ VIdle /\ DIdle /\ LIdle /\ WIdle /\ OIdle /\ GIdle
SetupNext ==
    RunSetup /\ UNCHANGED <<PYDANTIC_V2, vvars, dvars, lvars, wvars, ovars, gvars>>
SpecSetup == SetupInit /\ [][SetupNext]_vars

AgentsInit ==
    PYDANTIC_V2 = FALSE /\ GInit /\ VIdle /\ DIdle /\ LIdle /\ WIdle /\ OIdle /\ SIdle
AgentsNext ==
    \/ AddTool /\ UNCHANGED <<PYDANTIC_V2, vvars, dvars, lvars, wvars, ovars, svars>>
    \/ RemoveTool /\ UNCHANGED <<PYDANTIC_V2, vvars, dvars, lvars, wvars, ovars, svars>>
    \/ GetWorkflow /\ UNCHANGED <<PYDANTIC_V2, vvars, dvars, lvars, wvars, ovars, svars>>
SpecAgents == AgentsInit /\ [][AgentsNext]_vars

(***************************************************************************)
(* Claims about schema derivation (SpecDerive).                            *)
(***************************************************************************)
Succeeded(k) == ~derived[k].err.raised

\* C2: a derivation of a signature with N annotated parameters yields N
\* entries in declaration order, the i-th (from 0) carrying x-order i.
C2_OrdinalsInDeclarationOrder ==
    \A k \in DOMAIN derived :
        Succeeded(k) =>
            /\ Len(derived[k].model) = Len(sig)
            /\ \A i \in DOMAIN sig :
                  /\ derived[k].model[i].name = sig[i].name
                  /\ derived[k].model[i].xorder = i - 1

\* C3: two derivations from the same signature give structurally identical
\* results (the same outcome, names, types, required status, ordinals and
\* choice restrictions).
C3_DerivationIdempotent ==
    \A j \in DOMAIN derived : \A k \in DOMAIN derived : derived[j] = derived[k]

\* The choices parameter i declares in the source.
DeclaredChoices(i) ==
    IF sig[i].dflt.kind = "field" THEN PoppedChoices(declared[sig[i].dflt.ref])
    ELSE <<>>

\* C4: a parameter declaring choices is accepted only with base type str or
\* int, and its derived type then accepts exactly the declared choices, in
\* declared order; with another allowed base type derivation fails, with
\* InvalidChoiceType when that parameter is the one reported.
C4_ChoicesRestrictStrAndInt ==
    \A k \in DOMAIN derived : \A i \in DOMAIN sig :
        DeclaredChoices(i) # <<>> =>
            /\ Succeeded(k) =>
                  /\ sig[i].type \in {Atom("str"), Atom("int")}
                  /\ derived[k].model[i].type = EnumOf(sig[i].type.a, DeclaredChoices(i))
                  /\ \A v \in Values :
                        Accepts(derived[k].model[i].type, v)
                            <=> v \in Range(DeclaredChoices(i))
            /\ sig[i].type = Atom("float") =>
                  /\ derived[k].err.raised
                  /\ derived[k].err.param = sig[i].name
                        => derived[k].err.kind = "InvalidChoiceType"

(***************************************************************************)
(* Claims about validate_input_type (SpecValidate).                        *)
(***************************************************************************)
AllowedClasses == {"str", "int", "float", "bool", "File", "Path", "Secret"}

\* The classes at the leaves of an annotation: plain classes met by going
\* through Union and List members and through the values of a Literal.
RECURSIVE Leaves(_)
Leaves(t) ==
    IF t.k = "atom" THEN {t.a}
    ELSE IF t.k = "literal" THEN Range(t.args)
    ELSE IF t.k \in {"union", "list"}
        THEN UNION {Leaves(t.args[i]) : i \in DOMAIN t.args}
    ELSE {}

\* The annotation is a Union or List, nested to any depth, over allowed
\* classes only: the exception the claim grants.
RECURSIVE ResolvesToAllowed(_)
ResolvesToAllowed(t) ==
    \/ t.k = "atom" /\ t.a \in AllowedClasses
    \/ /\ t.k \in {"union", "list"}
       /\ \A i \in DOMAIN t.args : ResolvesToAllowed(t.args[i])

Validated == vres # NotRun

\* C6 as stated: an annotation is rejected with UnsupportedType naming the
\* parameter unless it is an allowed class or a Union/List whose members
\* all resolve to allowed classes; one that does resolve is accepted.
C6_RejectsOutsideUniverse ==
    (Validated /\ ann # Empty) =>
        IF ResolvesToAllowed(ann) THEN ~vres.raised
        ELSE vres = TypeError("UnsupportedType", vname)

\* C6 amended: Literal[...] is gone through like a Union, by the classes of
\* its values, and with PYDANTIC_V2 a class of module cog.types passes.
C6_RejectsUnlessLeavesAllowed ==
    (Validated /\ ann # Empty) =>
        IF \A c \in Leaves(ann) :
              c \in AllowedClasses \/ (PYDANTIC_V2 /\ c \in CogTypesModule)
        THEN ~vres.raised
        ELSE vres = TypeError("UnsupportedType", vname)

\* A Union nested in a List with a member outside the universe was rejected.
C6_Witness ==
    /\ Validated
    /\ ann.k = "list"
    /\ ann.args # <<>>
    /\ ann.args[1].k = "union"
    /\ "dict" \in Leaves(ann)
    /\ vres = TypeError("UnsupportedType", vname)

(***************************************************************************)
(* Claims about predictor loading (SpecLoad).                              *)
(***************************************************************************)
BothLoaded == slimLoaded # NotLoaded /\ fullLoaded # NotLoaded

\* The slim strategy was tried and did not give a module.
SlimFailed == host.py39 /\ host.slim # "module"

Predictions == 1..MaxPredictions

\* The messages of prediction p the worker has sent, oldest first.
Of(p) == SelectSeq(Emitted, LAMBDA m : m.pid = p)

Positions(msgs, type) == {i \in DOMAIN msgs : msgs[i].type = type}

\* The worker has taken prediction p up; it is no longer serving it.
Taken(p) == p <= worker.pid
Finished(p) == p < worker.pid \/ (p = worker.pid /\ ~Active)

\* C1: the messages of a prediction hold exactly one Done once it has
\* ended, none before, and nothing of that prediction follows its Done.
C1_ExactlyOneTerminalDone ==
    \A p \in Predictions :
        LET msgs == Of(p)
            dones == Positions(msgs, "Done")
        IN /\ Cardinality(dones) <= 1
           /\ \A i \in dones : i = Len(msgs)
           /\ Finished(p) => Cardinality(dones) = 1
           /\ ~Finished(p) => dones = {}

\* A prediction that had logged and produced output was canceled, and its
\* canceled Done is the last of its messages.
C1_Witness ==
    LET msgs == Of(1)
    IN /\ Len(msgs) >= 3
       /\ msgs[Len(msgs)].type = "Done"
       /\ msgs[Len(msgs)].canceled
       /\ Positions(msgs, "Log") # {}
       /\ Positions(msgs, "PredictionOutput") # {}

CanceledDone(m, p) == m.type = "Done" /\ m.pid = p /\ m.canceled /\ ~m.error

\* C7: a cancellation requested while a prediction is Running or Streaming
\* is eventually served; it stops pending, and the prediction stops being
\* active, only in a step that sends Done{canceled:true, error:false} for
\* that prediction; nothing of the prediction follows that Done.
C7_CancelLeadsToCanceledDone ==
    /\ (cancelReq /\ Active) ~> ~cancelReq
    /\ [][(cancelReq /\ (~cancelReq' \/ ~Active'))
              => /\ chan' = Append(chan, chan'[Len(chan')])
                 /\ CanceledDone(chan'[Len(chan')], worker.pid)]_vars
    /\ [](\A p \in Predictions :
             LET msgs == Of(p)
             IN \A i \in DOMAIN msgs :
                   CanceledDone(msgs[i], p) => i = Len(msgs))

\* A prediction canceled while Streaming ended with its canceled Done.
C7_Witness ==
    \E i \in DOMAIN Emitted :
        /\ CanceledDone(Emitted[i], 1)
        /\ \E j \in 1..(i - 1) :
              Emitted[j].type = "PredictionOutputType" /\ Emitted[j].multi

\* C8: a prediction has at most one PredictionOutputType, and it precedes
\* every PredictionOutput of the prediction.
C8_OneOutputTypeBeforeOutputs ==
    \A p \in Predictions :
        LET msgs == Of(p)
            types == Positions(msgs, "PredictionOutputType")
        IN /\ Cardinality(types) <= 1
           /\ \A t \in types : \A o \in Positions(msgs, "PredictionOutput") : t < o

C8_Witness ==
    LET msgs == Of(1)
    IN /\ Positions(msgs, "PredictionOutputType") # {}
       /\ Cardinality(Positions(msgs, "PredictionOutput")) >= 2

\* The outputs of prediction p in a log, oldest first.
OutputsIn(log, p) ==
    SelectSeq(log, LAMBDA m : m.pid = p /\ m.type = "PredictionOutput")

\* C9: a prediction declared multi=false has at most one PredictionOutput;
\* the outputs of a prediction reach the supervisor in generation order.
C9_SingleOutputOrOrderedStream ==
    \A p \in Predictions :
        LET msgs == Of(p)
            got == OutputsIn(received, p)
        IN /\ (\E t \in Positions(msgs, "PredictionOutputType") : ~msgs[t].multi)
                 => Cardinality(Positions(msgs, "PredictionOutput")) <= 1
           /\ \A i \in DOMAIN got : \A j \in DOMAIN got :
                 i < j => got[i].seq < got[j].seq

\* The supervisor holds two outputs of a prediction declared multi=true.
C9_Witness ==
    /\ Len(OutputsIn(received, 1)) >= 2
    /\ \E i \in DOMAIN received :
          received[i].type = "PredictionOutputType" /\ received[i].multi

ErrorDone(m) == m.type = "Done" /\ m.error /\ ~m.canceled /\ m.error_detail # ""

\* C10 as stated: a prediction whose payload fails validation, or whose
\* predict() raises, ends with Done{error:true} with error_detail set and
\* has no PredictionOutput; the worker is Idle afterwards and a later
\* prediction ends with its own Done.
C10_ErrorDoneAndNoOutput ==
    \A p \in Predictions :
        LET msgs == Of(p)
        IN /\ (Finished(p) /\ ~sup.valid[p]) => ErrorDone(msgs[Len(msgs)])
           /\ \A i \in Positions(msgs, "Done") :
                 msgs[i].error =>
                    /\ ErrorDone(msgs[i])
                    /\ Positions(msgs, "PredictionOutput") = {}
           /\ Finished(p) => Cardinality(Positions(msgs, "Done")) = 1
           /\ worker.state = "Exited" => sup.shutdown

\* C10 amended: the prediction has no PredictionOutput when its payload
\* fails validation; when predict() raises, the outputs it generated before
\* raising have been sent, and none follows the Done.
C10_ErrorDoneEndsPrediction ==
    \A p \in Predictions :
        LET msgs == Of(p)
        IN /\ (Finished(p) /\ ~sup.valid[p]) =>
                 /\ ErrorDone(msgs[Len(msgs)])
                 /\ Positions(msgs, "PredictionOutput") = {}
           /\ \A i \in Positions(msgs, "Done") :
                 msgs[i].error =>
                    /\ ErrorDone(msgs[i])
                    /\ \A o \in Positions(msgs, "PredictionOutput") : o < i
           /\ Finished(p) => Cardinality(Positions(msgs, "Done")) = 1
           /\ worker.state = "Exited" => sup.shutdown

\* A payload failed validation, and the next prediction produced an output
\* and completed.
C10_Witness ==
    LET first == Of(1)
        second == Of(2)
    IN /\ Len(first) = 1 /\ ErrorDone(first[1])
       /\ ~sup.valid[1]
       /\ Len(second) >= 3
       /\ Positions(second, "PredictionOutput") # {}
       /\ second[Len(second)].type = "Done"
       /\ ~second[Len(second)].error

(***************************************************************************)
(* C11: one prediction at a time.                                          *)
(***************************************************************************)
DoneOf(m, p) == m.type = "Done" /\ m.pid = p

\* C11: the messages of two predictions are never interleaved: in what the
\* worker has sent, a message of a prediction is preceded by the Done of
\* every earlier prediction and followed by no message of an earlier one,
\* and while a prediction is active every earlier one has its Done.
C11_PredictionsNeverInterleaved ==
    /\ \A j \in DOMAIN Emitted : \A p \in 1..(Emitted[j].pid - 1) :
          \E i \in 1..(j - 1) : DoneOf(Emitted[i], p)
    /\ \A i, j \in DOMAIN Emitted : i < j => Emitted[i].pid <= Emitted[j].pid
    /\ Active => \A p \in 1..(worker.pid - 1) :
          \E i \in DOMAIN Emitted : DoneOf(Emitted[i], p)

\* The second PredictionInput was sent while the first prediction was being
\* served, and the worker is producing the second prediction's output while
\* the first one's Done has not reached the supervisor yet.
C11_Witness ==
    /\ Len(chan) = 2
    /\ DoneOf(chan[1], 1)
    /\ ~chan[1].error
    /\ chan[2].pid = 2
    /\ chan[2].type = "PredictionOutputType"
    /\ received # <<>>
    /\ received[1].pid = 1

(***************************************************************************)
(* C13: defaults and default-carriers (SpecDerive).                        *)
(***************************************************************************)
\* C13: in a derivation that succeeds, a parameter with no default gives a
\* required field, a raw default a new carrier holding the value, and a
\* default that is a carrier gives a field holding that same carrier; and
\* after a derivation every carrier declared in the signature has the
\* contents it had before.
C13_CarrierUsedUnchanged ==
    derived # <<>> =>
        /\ heap = declared
        /\ Succeeded(1) =>
              \A i \in DOMAIN sig :
                  LET f == derived[1].model[i]
                  IN /\ sig[i].dflt.kind = "empty" => f.required /\ f.ref = 0
                     /\ sig[i].dflt.kind = "raw" => ~f.required /\ f.ref = 0
                     /\ sig[i].dflt.kind = "field" => f.ref = sig[i].dflt.ref

(***************************************************************************)
(* C14: sys.argv during and after an import (SpecLoad).                    *)
(***************************************************************************)
\* C14: in every import a loader runs, full or slim, the imported code sees
\* the program name alone as command-line arguments, and after the import,
\* returned or raised, the arguments are what they were before it.
C14_ArgvHiddenDuringImport ==
    /\ \A i \in DOMAIN imports :
          /\ imports[i].seen = SubSeq(imports[i].before, 1, 1)
          /\ imports[i].after = imports[i].before
    /\ imports # <<>> => argv = imports[1].before

(***************************************************************************)
(* C12: streaming outputs (SpecOutput).                                    *)
(***************************************************************************)
\* C12: for a return annotation that is an iterator of T, get_output_type
\* gives an Output model describing list-of-T with the streaming marker
\* set; for every other return annotation it gives an Output model without
\* the marker that describes the annotation itself.
C12_IteratorStreamsOthersDoNot ==
    (output # NotDerived /\ ret # Empty) =>
        /\ ~output.raised
        /\ IF ret.k = "iterator" /\ ret.args # <<>>
           THEN /\ Streaming(output.model)
                /\ Described(output.model) = ListOf(<<ret.args[1]>>)
           ELSE /\ ~Streaming(output.model)
                /\ Described(output.model) = ret

(***************************************************************************)
(* C15: weights resolution (SpecSetup).                                    *)
(***************************************************************************)
\* The declared type of the weights parameter, Optional[T] read as T.
DeclaredWeights ==
    IF setupEnv.annotation.k = "union" THEN setupEnv.annotation.args[1].a
    ELSE setupEnv.annotation.a

LocatorSet == setupEnv.COG_WEIGHTS \notin {"unset", ""}

\* C15: without a weights parameter setup() is called with no arguments.
\* With one of type File, Path or str: a COG_WEIGHTS locator, when set, is
\* what setup() gets, as a value of the declared type, unless that type
\* refuses it; else, when ./weights exists, setup() gets that path as a
\* usable value of the declared type; else no weights reach setup().
C15_WeightsResolvedInPriority ==
    setupCall # SetupNotRun =>
        IF ~setupEnv.hasWeights
        THEN ~setupCall.raised /\ setupCall.args = "none"
        ELSE DeclaredWeights \in {"File", "Path", "str"} =>
            IF LocatorSet
            THEN \/ setupCall.raised /\ setupCall.error = "ValidationError"
                 \/ /\ ~setupCall.raised
                    /\ setupCall.weights.from = "env"
                    /\ setupCall.weights.kind = DeclaredWeights
            ELSE IF setupEnv.exists
            THEN /\ ~setupCall.raised
                 /\ setupCall.weights.from = "local"
                 /\ setupCall.weights.kind = DeclaredWeights
                 /\ setupCall.weights.kind = "File" => setupCall.weights.open
            ELSE ~setupCall.raised /\ setupCall.weights = NoWeights

(***************************************************************************)
(* Claims about the agent adapters (SpecAgents).                           *)
(***************************************************************************)
\* C16: an add_tool call on a framework with fewer agents than its minimum
\* (two for autogen, one for langchain) does not raise and leaves the tools
\* of every agent of that framework as they were, at every call, both
\* frameworks being served by the one update_agent_tooling call.
C16_AddToolNoOpBelowMinimum ==
    [][AddTool =>
          /\ Len(autogen) < 2 => autogen' = autogen /\ tooling'.by # "autogen"
          /\ Len(langchain) = 0 => langchain' = langchain /\ tooling'.by # "langchain"]_vars

\* A tool was added to a predictor with one autogen agent, which has an LLM
\* configuration, and no langchain executor; the call returned and the
\* agent has no tool.
C16_Witness ==
    /\ tooling.op = "add"
    /\ tooling.by = ""
    /\ Len(autogen) = 1
    /\ autogen[1].llm
    /\ autogen[1].tools = <<>>
    /\ Len(langchain) = 0

\* Whether tool t has the name and description of the call.
Named(t, call) == t.name = call.name /\ t.desc = call.desc

\* C17: a langchain remove_tool(name, desc) leaves every executor with the
\* tools it had, in their order, less all those of that name and
\* description: none such is left, the others stay, and removing an absent
\* tool changes nothing.
C17_RemoveToolRemovesEveryMatch ==
    [][RemoveTool =>
          /\ DOMAIN langchain' = DOMAIN langchain
          /\ \A i \in DOMAIN langchain :
                langchain'[i].tools =
                    SelectSeq(langchain[i].tools, LAMBDA t : ~Named(t, tooling'))]_vars

\* C18: get_workflow returns a graph, whatever the autogen agents, their
\* order and their LLM configurations; every edge of the graph joins two
\* of its nodes; and a caller is never found without a distinct executor.
C18_WorkflowEdgesJoinNodes ==
    workflow # NotAsked =>
        /\ ~workflow.raised
        /\ \A e \in Range(workflow.edges) :
              {e.source, e.target} \subseteq {n.name : n \in Range(workflow.nodes)}
        /\ LET ce == get_caller_and_executor(autogen)
           IN ce.caller # 0 => ce.executor # 0 /\ ce.executor # ce.caller

====
